---- MODULE Spec2Model ----
(***************************************************************************)
(* Model of package ledger (tarcisio/haya): Transaction, its balance check *)
(* and totals, and the Ledger that validates a transaction before handing  *)
(* it to the injected Storage.                                             *)
(*                                                                         *)
(* Go's int is a fixed-width two's complement integer whose + wraps around *)
(* silently; it is modelled with IntBits bits.  uuid.UUID values are small *)
(* naturals (0 is uuid.Nil), time.Time values are naturals (0 is the zero  *)
(* time), an error is its message and the nil error is NoErr.              *)
(***************************************************************************)
EXTENDS Integers, Sequences, FiniteSets, TLC

VARIABLES tx, op, ret, saveCalls

vars == <<tx, op, ret, saveCalls>>

(***************************************************************************)
(* Bounds                                                                  *)
(***************************************************************************)
IntBits == 2              \* width of int in the model
MaxEntries == 3           \* entries of a transaction in Spec
MaxBatch == 2             \* longest argument of AddEntries
LedgerMaxEntries == 2     \* entries of a transaction in LedgerSpec
MaxSaveCalls == 1         \* calls of Storage.SaveTransaction in LedgerSpec

(***************************************************************************)
(* int                                                                     *)
(***************************************************************************)
RECURSIVE Pow2(_)
Pow2(n) == IF n = 0 THEN 1 ELSE 2 * Pow2(n - 1)

MinInt == 0 - Pow2(IntBits - 1)
MaxInt == Pow2(IntBits - 1) - 1

\* the value an int holds after an arithmetic result x: x modulo 2^IntBits
Wrap(x) == ((x - MinInt) % Pow2(IntBits)) + MinInt

\* Go's a + b on int
IntAdd(a, b) == Wrap(a + b)

\* Go's -a on int
IntNeg(a) == Wrap(0 - a)

(***************************************************************************)
(* Values                                                                  *)
(***************************************************************************)
ZeroUUID == 0
ZeroTime == 0
AccountIds == {1, 2}
Times == {1, 2}

TransactionTypeRegular == "Regular"
TransactionTypeClosing == "Closing"
TransactionType == {TransactionTypeRegular, TransactionTypeClosing}

\* the amounts entries are built with: the extremes of int and the values
\* around 0 (with IntBits = 2 these are all the values of int)
Amounts == {MinInt, 0 - 1, 0, 1, MaxInt}
Entry == [Account : AccountIds, Amount : Amounts]

\* the entries handed to the Ledger: an increase, a decrease that offsets
\* it, and a decrease by the extreme of int
LedgerEntry ==
    {[Account |-> 1, Amount |-> 1], [Account |-> 2, Amount |-> 0 - 1],
     [Account |-> 2, Amount |-> MinInt]}

\* cutoff times of a balance query: before, at and after the timestamps
QueryTimes == {ZeroTime} \cup Times

NoErr == "nil"
ErrNoEntries == "transaction has no entries"
ErrOneEntry == "transaction has only one entry"
ErrUnbalanced == "transaction is unbalanced"

\* AccountBalance{}: every field at its zero value
ZeroAccountBalance ==
    [AccountID |-> ZeroUUID, AccountType |-> "", Balance |-> 0,
     Timestamp |-> ZeroTime]

(***************************************************************************)
(* Transaction                                                             *)
(***************************************************************************)
newTransaction(timestamp, t_type) ==
    [Entries |-> <<>>, Timestamp |-> timestamp, TransactionType |-> t_type]

NewRegularTransaction(timestamp) ==
    newTransaction(timestamp, TransactionTypeRegular)

NewTransaction(timestamp) == NewRegularTransaction(timestamp)

NewClosingTransaction(timestamp) ==
    newTransaction(timestamp, TransactionTypeClosing)

\* var sum int; for _, entry := range entries { sum += entry.Amount }
RECURSIVE SumFrom(_, _, _)
SumFrom(entries, i, sum) ==
    IF i > Len(entries) THEN sum
    ELSE SumFrom(entries, i + 1, IntAdd(sum, entries[i].Amount))

\* the loop started one entry too late
SumAmounts_SkipFirst(entries) == SumFrom(entries, 2, 0)

SumAmounts(entries) == SumFrom(entries, 1, 0)

\* IsBalanced without the check for no entries
IsBalanced_NoEmptyCheck(t) ==
    IF Len(t.Entries) = 1 THEN [ok |-> FALSE, err |-> ErrOneEntry]
    ELSE IF SumAmounts(t.Entries) # 0 THEN [ok |-> FALSE, err |-> ErrUnbalanced]
    ELSE [ok |-> TRUE, err |-> NoErr]

\* IsBalanced without the check for a single entry
IsBalanced_NoSingleCheck(t) ==
    IF Len(t.Entries) = 0 THEN [ok |-> TRUE, err |-> ErrNoEntries]
    ELSE IF SumAmounts(t.Entries) # 0 THEN [ok |-> FALSE, err |-> ErrUnbalanced]
    ELSE [ok |-> TRUE, err |-> NoErr]

\* IsBalanced with the sum checked for Regular transactions only
IsBalanced_ClosingExempt(t) ==
    IF Len(t.Entries) = 0 THEN [ok |-> TRUE, err |-> ErrNoEntries]
    ELSE IF Len(t.Entries) = 1 THEN [ok |-> FALSE, err |-> ErrOneEntry]
    ELSE IF t.TransactionType = TransactionTypeRegular
            /\ SumAmounts(t.Entries) # 0
         THEN [ok |-> FALSE, err |-> ErrUnbalanced]
    ELSE [ok |-> TRUE, err |-> NoErr]

IsBalanced(t) ==
    IF Len(t.Entries) = 0 THEN [ok |-> TRUE, err |-> ErrNoEntries]
    ELSE IF Len(t.Entries) = 1 THEN [ok |-> FALSE, err |-> ErrOneEntry]
    ELSE IF SumAmounts(t.Entries) # 0 THEN [ok |-> FALSE, err |-> ErrUnbalanced]
    ELSE [ok |-> TRUE, err |-> NoErr]

\* for _, entry := range entries { if entry.Amount > 0 { total += entry.Amount } }
RECURSIVE IncreasesFrom(_, _, _)
IncreasesFrom(entries, i, total) ==
    IF i > Len(entries) THEN total
    ELSE IncreasesFrom(entries, i + 1,
                       IF entries[i].Amount > 0
                       THEN IntAdd(total, entries[i].Amount) ELSE total)

TotalIncreases(t) == IncreasesFrom(t.Entries, 1, 0)

\* for _, entry := range entries { if entry.Amount < 0 { total += entry.Amount } }
RECURSIVE DecreasesFrom(_, _, _)
DecreasesFrom(entries, i, total) ==
    IF i > Len(entries) THEN total
    ELSE DecreasesFrom(entries, i + 1,
                       IF entries[i].Amount < 0
                       THEN IntAdd(total, entries[i].Amount) ELSE total)

\* the decreases returned as a magnitude
TotalDecreases_Magnitude(t) == IntNeg(DecreasesFrom(t.Entries, 1, 0))

TotalDecreases(t) == DecreasesFrom(t.Entries, 1, 0)

AddEntry(t, e) == [t EXCEPT !.Entries = Append(t.Entries, e)]

\* the entries assigned instead of appended
AddEntries_Replace(t, entries) == [t EXCEPT !.Entries = entries]

AddEntries(t, entries) == [t EXCEPT !.Entries = t.Entries \o entries]

(***************************************************************************)
(* Calls on the transaction under construction.  op names the last call    *)
(* and ret holds what it returned.                                         *)
(***************************************************************************)
NoRet == [void |-> TRUE]

CallNewTransaction(timestamp) ==
    /\ tx' = NewTransaction(timestamp)
    /\ op' = "NewTransaction"
    /\ ret' = NoRet
    /\ UNCHANGED saveCalls

CallNewRegularTransaction(timestamp) ==
    /\ tx' = NewRegularTransaction(timestamp)
    /\ op' = "NewRegularTransaction"
    /\ ret' = NoRet
    /\ UNCHANGED saveCalls

CallNewClosingTransaction(timestamp) ==
    /\ tx' = NewClosingTransaction(timestamp)
    /\ op' = "NewClosingTransaction"
    /\ ret' = NoRet
    /\ UNCHANGED saveCalls

CallAddEntry(e, limit) ==
    /\ Len(tx.Entries) < limit
    /\ tx' = AddEntry(tx, e)
    /\ op' = "AddEntry"
    /\ ret' = NoRet
    /\ UNCHANGED saveCalls

CallAddEntries(entries, limit) ==
    /\ Len(tx.Entries) + Len(entries) <= limit
    /\ tx' = AddEntries(tx, entries)
    /\ op' = "AddEntries"
    /\ ret' = NoRet
    /\ UNCHANGED saveCalls

CallIsBalanced ==
    /\ op' = "IsBalanced"
    /\ ret' = IsBalanced(tx)
    /\ UNCHANGED <<tx, saveCalls>>

CallTotalIncreases ==
    /\ op' = "TotalIncreases"
    /\ ret' = [total |-> TotalIncreases(tx)]
    /\ UNCHANGED <<tx, saveCalls>>

CallTotalDecreases ==
    /\ op' = "TotalDecreases"
    /\ ret' = [total |-> TotalDecreases(tx)]
    /\ UNCHANGED <<tx, saveCalls>>

(***************************************************************************)
(* Storage and Ledger.  Storage is an interface: what SaveTransaction      *)
(* answers is an input of the call.  saveCalls is the record a test double *)
(* keeps: one element per SaveTransaction call, with the transaction as it *)
(* was when handed over and the answer given.                              *)
(***************************************************************************)
ErrStorage == "storage failure"
StorageAnswers == {NoErr, ErrStorage}

\* l.storage.SaveTransaction(ctx, t) answering err
SaveTransaction(calls, t, answer) == Append(calls, [t |-> t, err |-> answer])

\* the transactions Storage accepted, in order
Saved == SelectSeq(saveCalls, LAMBDA c : c.err = NoErr)

\* the transaction saved before it is checked
AddTransaction_SaveFirst(calls, t, answer) ==
    LET checked == IsBalanced(t) IN
    IF ~checked.ok
    THEN [err |-> checked.err, saveCalls |-> SaveTransaction(calls, t, answer)]
    ELSE [err |-> answer, saveCalls |-> SaveTransaction(calls, t, answer)]

\* the answer of Storage dropped
AddTransaction_DropStorageErr(calls, t, answer) ==
    LET checked == IsBalanced(t) IN
    IF ~checked.ok
    THEN [err |-> checked.err, saveCalls |-> calls]
    ELSE [err |-> NoErr, saveCalls |-> SaveTransaction(calls, t, answer)]

AddTransaction(calls, t, answer) ==
    LET checked == IsBalanced(t) IN
    IF ~checked.ok
    THEN [err |-> checked.err, saveCalls |-> calls]
    ELSE [err |-> answer, saveCalls |-> SaveTransaction(calls, t, answer)]

getAccountBalance(accountID, t, closed) ==
    [balance |-> ZeroAccountBalance, err |-> NoErr]

GetCurrentAccountBalance(accountID, closed, now) ==
    getAccountBalance(accountID, now, closed)

GetAccountBalanceAt(accountID, t) == getAccountBalance(accountID, t, FALSE)

GetAccountBalanceClosedAt(accountID, t) == getAccountBalance(accountID, t, TRUE)

CallAddTransaction(answer) ==
    LET r == AddTransaction(saveCalls, tx, answer) IN
    /\ Len(r.saveCalls) <= MaxSaveCalls
    /\ op' = "AddTransaction"
    /\ ret' = [err |-> r.err]
    /\ saveCalls' = r.saveCalls
    /\ UNCHANGED tx

CallGetCurrentAccountBalance(accountID, closed, now) ==
    LET r == GetCurrentAccountBalance(accountID, closed, now) IN
    /\ op' = "GetCurrentAccountBalance"
    /\ ret' = [accountID |-> accountID, t |-> now, closed |-> closed,
               balance |-> r.balance, err |-> r.err]
    /\ UNCHANGED <<tx, saveCalls>>

CallGetAccountBalanceAt(accountID, t) ==
    LET r == GetAccountBalanceAt(accountID, t) IN
    /\ op' = "GetAccountBalanceAt"
    /\ ret' = [accountID |-> accountID, t |-> t, closed |-> FALSE,
               balance |-> r.balance, err |-> r.err]
    /\ UNCHANGED <<tx, saveCalls>>

CallGetAccountBalanceClosedAt(accountID, t) ==
    LET r == GetAccountBalanceClosedAt(accountID, t) IN
    /\ op' = "GetAccountBalanceClosedAt"
    /\ ret' = [accountID |-> accountID, t |-> t, closed |-> TRUE,
               balance |-> r.balance, err |-> r.err]
    /\ UNCHANGED <<tx, saveCalls>>

\* sequences over S of length 0..n
SeqsUpTo(S, n) == UNION {[1..k -> S] : k \in 0..n}

\* the arguments of AddEntries that keep the transaction within limit entries
Batches(S, limit) ==
    LET room == limit - Len(tx.Entries) IN
    SeqsUpTo(S, IF room < MaxBatch THEN room ELSE MaxBatch)

Init ==
    /\ tx \in {NewTransaction(ts) : ts \in Times}
    /\ op = "NewTransaction"
    /\ ret = NoRet
    /\ saveCalls = <<>>

Next ==
    \/ \E ts \in Times : CallNewTransaction(ts)
    \/ \E ts \in Times : CallNewRegularTransaction(ts)
    \/ \E ts \in Times : CallNewClosingTransaction(ts)
    \/ \E e \in Entry : CallAddEntry(e, MaxEntries)
    \/ \E es \in Batches(Entry, MaxEntries) : CallAddEntries(es, MaxEntries)
    \/ CallIsBalanced
    \/ CallTotalIncreases
    \/ CallTotalDecreases

Spec == Init /\ [][Next]_vars

(***************************************************************************)
(* The ledger: transactions are built as above and handed to the Ledger,   *)
(* and balances are queried.                                               *)
(***************************************************************************)
LedgerNext ==
    \/ \E ts \in Times : CallNewTransaction(ts)
    \/ \E ts \in Times : CallNewRegularTransaction(ts)
    \/ \E ts \in Times : CallNewClosingTransaction(ts)
    \/ \E e \in LedgerEntry : CallAddEntry(e, LedgerMaxEntries)
    \/ \E es \in Batches(LedgerEntry, LedgerMaxEntries) :
          CallAddEntries(es, LedgerMaxEntries)
    \/ \E answer \in StorageAnswers : CallAddTransaction(answer)

LedgerSpec == Init /\ [][LedgerNext]_vars

(***************************************************************************)
(* The ledger with its balance queries.                                    *)
(***************************************************************************)
QueryNext ==
    \/ LedgerNext
    \/ \E a \in AccountIds, closed \in BOOLEAN, now \in QueryTimes :
          CallGetCurrentAccountBalance(a, closed, now)
    \/ \E a \in AccountIds, t \in QueryTimes : CallGetAccountBalanceAt(a, t)
    \/ \E a \in AccountIds, t \in QueryTimes : CallGetAccountBalanceClosedAt(a, t)

QuerySpec == Init /\ [][QueryNext]_vars

(***************************************************************************)
(* Properties                                                              *)
(***************************************************************************)
\* the sum of the amounts as a mathematical integer
RECURSIVE MathSum(_)
MathSum(entries) ==
    IF entries = <<>> THEN 0 ELSE Head(entries).Amount + MathSum(Tail(entries))

Positive(entries) == SelectSeq(entries, LAMBDA e : e.Amount > 0)
Negative(entries) == SelectSeq(entries, LAMBDA e : e.Amount < 0)

\* C1: IsBalanced on at least two entries whose amounts have a non-zero
\* (mathematical) sum returns false with "transaction is unbalanced".
C1_NonZeroSumRejected ==
    (op = "IsBalanced" /\ Len(tx.Entries) >= 2 /\ MathSum(tx.Entries) # 0)
        => ret = [ok |-> FALSE, err |-> ErrUnbalanced]

\* C2: IsBalanced on at least two entries whose amounts sum to zero returns
\* true with no error, for a Regular and for a Closing transaction alike.
C2_ZeroSumBalanced ==
    (op = "IsBalanced" /\ Len(tx.Entries) >= 2 /\ MathSum(tx.Entries) = 0)
        => ret = [ok |-> TRUE, err |-> NoErr]

C2_Witness ==
    /\ op = "IsBalanced"
    /\ tx.TransactionType = TransactionTypeClosing
    /\ Len(tx.Entries) >= 2
    /\ \E i \in DOMAIN tx.Entries : tx.Entries[i].Amount # 0
    /\ MathSum(tx.Entries) = 0
    /\ ret = [ok |-> TRUE, err |-> NoErr]

\* C3: a transaction just constructed, of either type, has no entries, and
\* IsBalanced on a transaction with no entries returns true together with
\* the error "transaction has no entries".
C3_NoEntriesFlagged ==
    /\ op \in {"NewTransaction", "NewRegularTransaction", "NewClosingTransaction"}
          => Len(tx.Entries) = 0
    /\ (op = "IsBalanced" /\ Len(tx.Entries) = 0)
          => ret = [ok |-> TRUE, err |-> ErrNoEntries]

C3_Witness ==
    /\ op = "IsBalanced"
    /\ tx = NewClosingTransaction(tx.Timestamp)
    /\ ret.ok
    /\ ret.err = ErrNoEntries

\* C4: IsBalanced on a transaction with exactly one entry returns false with
\* "transaction has only one entry", also when the amount is 0.
C4_SingleEntryRejected ==
    (op = "IsBalanced" /\ Len(tx.Entries) = 1)
        => ret = [ok |-> FALSE, err |-> ErrOneEntry]

C4_Witness ==
    /\ op = "IsBalanced"
    /\ Len(tx.Entries) = 1
    /\ tx.Entries[1].Amount = 0
    /\ ret = [ok |-> FALSE, err |-> ErrOneEntry]

\* C5: AddTransaction on a transaction for which IsBalanced returns false
\* returns the error IsBalanced reported and makes no SaveTransaction call:
\* the record of calls, and so the content of storage, is unchanged.
C5_UnbalancedNotSaved ==
    [][(op' = "AddTransaction" /\ ~IsBalanced(tx).ok)
         => /\ ret'.err = IsBalanced(tx).err
            /\ ret'.err \in {ErrOneEntry, ErrUnbalanced}
            /\ saveCalls' = saveCalls
            /\ tx' = tx]_vars

C5_Witness ==
    /\ op = "AddTransaction"
    /\ Len(tx.Entries) >= 2
    /\ MathSum(tx.Entries) # 0
    /\ ret.err = ErrUnbalanced
    /\ saveCalls = <<>>

\* C6: AddTransaction on a transaction for which the balance check reports
\* an error returns a non-nil error.
C6_ValidationErrorReturned ==
    (op = "AddTransaction" /\ IsBalanced(tx).err # NoErr) => ret.err # NoErr

\* C7: AddTransaction on at least two entries summing to zero calls
\* SaveTransaction exactly once, with that transaction, and returns what
\* Storage answered: nil or the error of Storage.
C7_BalancedForwarded ==
    [][(op' = "AddTransaction" /\ Len(tx.Entries) >= 2 /\ MathSum(tx.Entries) = 0)
         => \E answer \in StorageAnswers :
               /\ saveCalls' = Append(saveCalls, [t |-> tx, err |-> answer])
               /\ ret'.err = answer
               /\ tx' = tx]_vars

C7_Witness ==
    /\ op = "AddTransaction"
    /\ Len(tx.Entries) >= 2
    /\ MathSum(tx.Entries) = 0
    /\ Len(saveCalls) = 1
    /\ saveCalls[1] = [t |-> tx, err |-> ErrStorage]
    /\ ret.err = ErrStorage

\* the amounts of the entries of an account in the saved transactions with
\* timestamp <= t, those of Closing transactions only when closed
RECURSIVE EntriesUpTo(_, _, _, _)
EntriesUpTo(saved, accountID, t, closed) ==
    IF saved = <<>> THEN <<>>
    ELSE LET h == Head(saved).t IN
         (IF h.Timestamp <= t
             /\ (closed \/ h.TransactionType # TransactionTypeClosing)
          THEN SelectSeq(h.Entries, LAMBDA e : e.Account = accountID)
          ELSE <<>>)
         \o EntriesUpTo(Tail(saved), accountID, t, closed)

\* C8: GetAccountBalanceAt returns the sum of the account's entries over the
\* saved transactions with timestamp <= t that are not Closing, and
\* GetAccountBalanceClosedAt the same sum with the Closing ones included.
C8_BalanceIsEntrySum ==
    op \in {"GetAccountBalanceAt", "GetAccountBalanceClosedAt"}
        => ret.balance.Balance =
              MathSum(EntriesUpTo(Saved, ret.accountID, ret.t, ret.closed))

C10_TotalsSigned ==
    /\ op = "TotalIncreases"
          => ret.total = MathSum(Positive(tx.Entries)) /\ ret.total >= 0
    /\ op = "TotalDecreases"
          => ret.total = MathSum(Negative(tx.Entries)) /\ ret.total <= 0

\* the verdict the policy table gives for an entry sequence, the sum taken
\* as the int the code computes
Verdict(entries) ==
    IF Len(entries) = 0 THEN [ok |-> TRUE, err |-> ErrNoEntries]
    ELSE IF Len(entries) = 1 THEN [ok |-> FALSE, err |-> ErrOneEntry]
    ELSE IF Wrap(MathSum(entries)) = 0 THEN [ok |-> TRUE, err |-> NoErr]
    ELSE [ok |-> FALSE, err |-> ErrUnbalanced]

\* C11: every IsBalanced call returns the verdict of the entry sequence the
\* transaction holds at the call, whatever its timestamp, its type and the
\* calls made before; it leaves the transaction unchanged, and a call that
\* directly follows another one returns the same pair.
C11_VerdictOfCurrentEntries ==
    [][op' = "IsBalanced"
         => /\ tx' = tx
            /\ ret' = Verdict(tx.Entries)
            /\ op = "IsBalanced" => ret' = ret]_vars

C11_Witness ==
    /\ op = "IsBalanced"
    /\ Len(tx.Entries) = 3
    /\ tx.Entries[1].Amount # 0
    /\ Verdict(SubSeq(tx.Entries, 1, 1)) = [ok |-> FALSE, err |-> ErrOneEntry]
    /\ Verdict(SubSeq(tx.Entries, 1, 2)) = [ok |-> TRUE, err |-> NoErr]
    /\ ret = [ok |-> FALSE, err |-> ErrUnbalanced]

IsPrefix(s, t) == Len(s) <= Len(t) /\ SubSeq(t, 1, Len(s)) = s

\* AddEntry called on each element of entries in order
RECURSIVE AddEach(_, _)
AddEach(t, entries) ==
    IF entries = <<>> THEN t
    ELSE AddEach(AddEntry(t, Head(entries)), Tail(entries))

\* C12: AddEntries(es) gives the transaction that AddEntry on each element
\* of es in order gives, and the same transaction when es is empty; a call
\* of AddEntry or AddEntries keeps the entries it found as a prefix of the
\* new entry sequence, whose length does not decrease, and keeps the
\* timestamp and the type; the other calls on a transaction leave it as is.
C12_AppendOnly ==
    /\ [](/\ \A es \in Batches(Entry, MaxEntries) :
                AddEntries(tx, es) = AddEach(tx, es)
          /\ AddEntries(tx, <<>>) = tx)
    /\ [][/\ op' \in {"AddEntry", "AddEntries"}
                => /\ IsPrefix(tx.Entries, tx'.Entries)
                   /\ Len(tx'.Entries) >= Len(tx.Entries)
                   /\ tx'.Timestamp = tx.Timestamp
                   /\ tx'.TransactionType = tx.TransactionType
          /\ op' \in {"IsBalanced", "TotalIncreases", "TotalDecreases"}
                => tx' = tx]_vars

C12_Witness ==
    /\ op = "AddEntries"
    /\ Len(tx.Entries) = MaxEntries
    /\ tx.Entries[1] # tx.Entries[2]
    /\ tx.Entries[2] # tx.Entries[3]
    /\ tx = AddEach(newTransaction(tx.Timestamp, tx.TransactionType), tx.Entries)

\* C13: every transaction handed to SaveTransaction had entry amounts whose
\* sum was zero when it was handed over.
C13_SavedSumZero ==
    \A i \in DOMAIN saveCalls : MathSum(saveCalls[i].t.Entries) = 0

====
